---- MODULE Spec2Model ----
(***************************************************************************)
(* lambda_function.py: an HTTP-triggered handler that authenticates        *)
(* against OpenStack Identity, reads the status of one compute instance    *)
(* and optionally issues one control command (unshelve / os-start /        *)
(* shelve).                                                                *)
(*                                                                         *)
(* Strings whose characters the code inspects (the action parameter, the   *)
(* server status) are tuples of one-character strings, so that lower(),    *)
(* strip() and upper() are computed and not assumed.  Strings that are     *)
(* only compared for equality (keys, region, ids) are TLA+ strings.        *)
(* A dict is a function; an absent key is a key outside its DOMAIN.        *)
(***************************************************************************)
EXTENDS Integers, Sequences, FiniteSets, TLC

VARIABLES
    environ,          \* os.environ
    ENABLE_API_KEY,   \* the module switch of line 27
    server_status,    \* the instance status held by the Compute service
    event,            \* the event of the invocation in progress
    pc,               \* "idle" | "invoke" | "auth" | "get" | "control" | "done"
    action,           \* lambda_handler locals
    region,
    instance_id,
    token,
    compute_endpoint,
    state,
    data,             \* control commands still to be posted
    calls,            \* outbound calls of this invocation, in order
    resp              \* the value lambda_handler returned

vars == <<environ, ENABLE_API_KEY, server_status, event, pc, action, region,
          instance_id, token, compute_endpoint, state, data, calls, resp>>

\* most blanks put around an action parameter
MaxPad == 1

None == "<None>"
Unset == "<unset>"

-----------------------------------------------------------------------------
\* str.lower, str.upper, str.strip

LowerChars == <<"a","b","c","d","e","f","g","h","i","j","k","l","m",
                "n","o","p","q","r","s","t","u","v","w","x","y","z">>
UpperChars == <<"A","B","C","D","E","F","G","H","I","J","K","L","M",
                "N","O","P","Q","R","S","T","U","V","W","X","Y","Z">>
Whitespace == {" ", "\t", "\n", "\r"}

lower_char(c) ==
    IF \E i \in 1..Len(UpperChars) : UpperChars[i] = c
    THEN LowerChars[CHOOSE i \in 1..Len(UpperChars) : UpperChars[i] = c]
    ELSE c

upper_char(c) ==
    IF \E i \in 1..Len(LowerChars) : LowerChars[i] = c
    THEN UpperChars[CHOOSE i \in 1..Len(LowerChars) : LowerChars[i] = c]
    ELSE c

lower(s) == [i \in 1..Len(s) |-> lower_char(s[i])]

upper_identity(s) == s
upper(s) == [i \in 1..Len(s) |-> upper_char(s[i])]

RECURSIVE lstrip(_)
lstrip(s) ==
    IF s = <<>> THEN s
    ELSE IF Head(s) \in Whitespace THEN lstrip(Tail(s)) ELSE s

RECURSIVE rstrip(_)
rstrip(s) ==
    IF s = <<>> THEN s
    ELSE IF s[Len(s)] \in Whitespace THEN rstrip(SubSeq(s, 1, Len(s) - 1)) ELSE s

strip(s) == rstrip(lstrip(s))

-----------------------------------------------------------------------------
\* string literals of the source

STR_start  == <<"s","t","a","r","t">>
STR_stop   == <<"s","t","o","p">>
STR_status == <<"s","t","a","t","u","s">>
STR_reboot == <<"r","e","b","o","o","t">>

ACTIVE  == <<"A","C","T","I","V","E">>
SHUTOFF == <<"S","H","U","T","O","F","F">>
SHELVED == <<"S","H","E","L","V","E","D">>
SHELVED_OFFLOADED ==
    <<"S","H","E","L","V","E","D","_","O","F","F","L","O","A","D","E","D">>
ERROR   == <<"E","R","R","O","R">>

-----------------------------------------------------------------------------
\* dict access

dict_get(d, k) == IF k \in DOMAIN d THEN d[k] ELSE None
sub_dict(d, k) == IF k \in DOMAIN d THEN d[k] ELSE <<>>
truthy(v) == v \notin {None, ""}
py_or(a, b) == IF truthy(a) THEN a ELSE b

RECURSIVE SeqFilter(_, _)
SeqFilter(s, keep) ==
    IF s = <<>> THEN <<>>
    ELSE IF Head(s) \in keep THEN <<Head(s)>> \o SeqFilter(Tail(s), keep)
    ELSE SeqFilter(Tail(s), keep)

-----------------------------------------------------------------------------
\* configuration and validation

MANDATORY_ENVS == <<"OS_AUTH_URL", "OS_USERNAME", "OS_PASSWORD", "OS_PROJECT_ID">>

REQUIRED_ENVS(enable) ==
    IF enable THEN Append(MANDATORY_ENVS, "API_KEY") ELSE MANDATORY_ENVS

_json(status, body) == [statusCode |-> status, body |-> body]

internal_error(type, msg, keys, upstream) ==
    _json(500, [error |-> "internal_error",
                detail |-> [type |-> type, msg |-> msg, keys |-> keys,
                            status |-> upstream]])

\* the keys _require_envs reports missing, in REQUIRED_ENVS order
require_envs_unset_only(env, enable) ==
    SeqFilter(REQUIRED_ENVS(enable),
              {k \in {"OS_AUTH_URL", "OS_USERNAME", "OS_PASSWORD",
                      "OS_PROJECT_ID", "API_KEY"} : k \notin DOMAIN env})
_require_envs(env, enable) ==
    SeqFilter(REQUIRED_ENVS(enable),
              {k \in {"OS_AUTH_URL", "OS_USERNAME", "OS_PASSWORD",
                      "OS_PROJECT_ID", "API_KEY"} : ~truthy(dict_get(env, k))})

\* "ok", or the message of the RuntimeError _check_api_key raises
check_api_key_presence_only(ev, env, enable) ==
    IF ~enable THEN "ok"
    ELSE LET headers == sub_dict(ev, "headers")
             from_headers == py_or(dict_get(headers, "X-API-Key"),
                                   dict_get(headers, "x-api-key"))
             provided == IF truthy(from_headers) THEN from_headers
                         ELSE dict_get(sub_dict(ev, "queryStringParameters"), "api_key")
         IN IF truthy(provided) THEN "ok" ELSE "API key not provided"
_check_api_key(ev, env, enable) ==
    IF ~enable THEN "ok"
    ELSE LET expected_api_key == dict_get(env, "API_KEY")
             headers == sub_dict(ev, "headers")
             from_headers == py_or(dict_get(headers, "X-API-Key"),
                                   dict_get(headers, "x-api-key"))
             provided_api_key ==
                 IF truthy(from_headers) THEN from_headers
                 ELSE dict_get(sub_dict(ev, "queryStringParameters"), "api_key")
         IN IF ~truthy(expected_api_key)
            THEN "API_KEY environment variable not configured"
            ELSE IF ~truthy(provided_api_key) THEN "API key not provided"
            ELSE IF provided_api_key # expected_api_key THEN "Invalid API key"
            ELSE "ok"

allowed_with_reboot == {STR_start, STR_stop, STR_status, STR_reboot}
allowed == {STR_start, STR_stop, STR_status}

\* (qs.get("action") or "status").lower().strip()
requested_action(qs) ==
    LET raw == IF "action" \in DOMAIN qs /\ qs["action"] # <<>>
               THEN qs["action"] ELSE STR_status
    IN strip(lower(raw))

missing_parameters(reg, inst) ==
    (IF ~truthy(reg) THEN <<"region">> ELSE <<>>)
    \o (IF ~truthy(inst) THEN <<"instance_id">> ELSE <<>>)

-----------------------------------------------------------------------------
\* requests

\* status 0 stands for a call that raised before any response arrived
raise_for_status_5xx_only(status) == status >= 500 /\ status < 600
raise_for_status(status) == status >= 400 /\ status < 600

\* the first endpoint of a service that is public and of the region
RECURSIVE first_endpoint(_, _)
first_endpoint(endpoints, reg) ==
    IF endpoints = <<>> THEN None
    ELSE IF Head(endpoints).region_id = reg /\ Head(endpoints).interface = "public"
         THEN Head(endpoints).url
         ELSE first_endpoint(Tail(endpoints), reg)

\* the loop of lines 122-130; acc is compute_endpoint so far
RECURSIVE find_compute_endpoint(_, _, _)
find_compute_endpoint(catalog, reg, acc) ==
    IF catalog = <<>> THEN acc
    ELSE LET service == Head(catalog)
             found == IF service.type = "compute"
                      THEN first_endpoint(service.endpoints, reg) ELSE None
             now == IF found # None THEN found ELSE acc
         IN IF truthy(now) THEN now
            ELSE find_compute_endpoint(Tail(catalog), reg, now)

\* what _get_token_and_compute_url does with the identity response o
_get_token_and_compute_url(o, reg) ==
    IF o.status = 0
    THEN [raised |-> "ConnectionError", status |-> 0, token |-> None, url |-> None]
    ELSE IF raise_for_status(o.status)
    THEN [raised |-> "HTTPError", status |-> o.status, token |-> None, url |-> None]
    ELSE IF o.token = None
    THEN [raised |-> "KeyError", status |-> 0, token |-> None, url |-> None]
    ELSE LET url == find_compute_endpoint(o.catalog, reg, None)
         IN IF ~truthy(o.token) \/ ~truthy(url)
            THEN [raised |-> "RuntimeError", status |-> 0, token |-> None, url |-> None]
            ELSE [raised |-> "", status |-> 0, token |-> o.token, url |-> url]

\* what _make_compute_request does with the compute response o
_make_compute_request(o) ==
    IF o.status = 0 THEN [raised |-> "ConnectionError", status |-> 0, value |-> None]
    ELSE IF raise_for_status(o.status)
    THEN [raised |-> "HTTPError", status |-> o.status, value |-> None]
    ELSE IF o.status # 204 /\ o.body # "empty"
    THEN IF o.body = "not_json"
         THEN [raised |-> "JSONDecodeError", status |-> 0, value |-> None]
         ELSE [raised |-> "", status |-> 0, value |-> o.body]
    ELSE [raised |-> "", status |-> 0, value |-> None]

\* lines 190: not server_data or "server" not in server_data
server_missing(server_data) == server_data = None \/ server_data # "server"

-----------------------------------------------------------------------------
\* decision logic

\* the control commands lambda_handler posts for act in state st
control_plan_reject_unknown(act, st) ==
    IF act = STR_start
    THEN IF st \in {SHELVED, SHELVED_OFFLOADED} THEN <<"unshelve">>
         ELSE IF st = ACTIVE THEN <<>>
         ELSE <<"os-start">>
    ELSE IF act = STR_stop
    THEN IF st \in {ACTIVE, SHUTOFF} THEN <<"shelve">> ELSE <<>>
    ELSE <<>>
control_plan_start_active(act, st) ==
    IF act = STR_start
    THEN IF st \in {SHELVED, SHELVED_OFFLOADED} THEN <<"unshelve">>
         ELSE <<"os-start">>
    ELSE IF act = STR_stop
    THEN IF st \in {SHELVED, SHELVED_OFFLOADED} THEN <<>> ELSE <<"shelve">>
    ELSE <<>>
control_plan_fall_through(act, st) ==
    IF act = STR_start
    THEN IF st \in {SHELVED, SHELVED_OFFLOADED} THEN <<"unshelve">>
         ELSE IF st = ACTIVE THEN <<>>
         ELSE <<"os-start">>
    ELSE IF act = STR_stop
    THEN IF st \in {SHELVED, SHELVED_OFFLOADED} THEN <<>>
         ELSE IF st = ACTIVE THEN <<"shelve", "shelve">>
         ELSE <<"shelve">>
    ELSE <<>>
control_plan(act, st) ==
    IF act = STR_start
    THEN IF st \in {SHELVED, SHELVED_OFFLOADED} THEN <<"unshelve">>
         ELSE IF st = ACTIVE THEN <<>>
         ELSE <<"os-start">>
    ELSE IF act = STR_stop
    THEN IF st \in {SHELVED, SHELVED_OFFLOADED} THEN <<>>
         ELSE IF st = ACTIVE THEN <<"shelve">>
         ELSE IF st = SHUTOFF THEN <<"shelve">>
         ELSE <<"shelve">>
    ELSE <<>>

\* the 200 answer of lambda_handler for act in state st
report(act, st, inst) ==
    IF act = STR_status
    THEN _json(200, [instance_id |-> inst, state |-> st])
    ELSE IF act = STR_start
    THEN IF st \in {SHELVED, SHELVED_OFFLOADED}
         THEN _json(200, [message |-> "unshelve requested", from_state |-> st])
         ELSE IF st = ACTIVE THEN _json(200, [message |-> "already active"])
         ELSE _json(200, [message |-> "start requested", from_state |-> st])
    ELSE IF st \in {SHELVED, SHELVED_OFFLOADED}
         THEN _json(200, [message |-> "already shelved"])
         ELSE IF st = ACTIVE THEN _json(200, [message |-> "shelve requested from ACTIVE"])
         ELSE IF st = SHUTOFF THEN _json(200, [message |-> "shelve requested from SHUTOFF"])
         ELSE _json(200, [message |-> "shelve requested", from_state |-> st])

\* the status the Compute service gives the instance once it accepted op
status_after(op) == IF op = "shelve" THEN SHELVED_OFFLOADED ELSE ACTIVE

-----------------------------------------------------------------------------
\* the requests, configurations and upstream answers explored

Pad(n) == [i \in 1..n |-> " "]

ActionWords ==
    {STR_start, upper(STR_start), STR_stop, <<"\t">> \o STR_stop,
     STR_status, STR_reboot, <<>>}

Pads == {p \in (0..MaxPad) \X (0..MaxPad) : p[1] + p[2] <= MaxPad}

ActionInputs == {Pad(p[1]) \o w \o Pad(p[2]) : w \in ActionWords, p \in Pads}

HeaderNames == {"X-API-Key", "x-api-key", "X-Api-Key"}

KeyHeaders == {<<>>} \cup {n :> k : n \in HeaderNames, k \in {"secret", "Secret"}}

Field(k, v) == IF v = Unset THEN <<>> ELSE k :> v

MkQs(act, key, reg, inst) ==
    (IF act = <<>> THEN <<>> ELSE "action" :> act[1])
    @@ Field("api_key", key) @@ Field("region", reg) @@ Field("instance_id", inst)

MkEvent(headers, qs) == ("headers" :> headers) @@ ("queryStringParameters" :> qs)

Events ==
    {<<>>}
    \cup {MkEvent(h, MkQs(<<a>>, k, "GRA11", "i-1")) :
            h \in KeyHeaders, k \in {Unset, "secret", "wrong"},
            a \in {STR_status, STR_reboot}}
    \cup {MkEvent("X-API-Key" :> "secret", MkQs(<<a>>, Unset, "GRA11", "i-1")) :
            a \in ActionInputs}
    \cup {MkEvent("x-api-key" :> "secret", MkQs(a, Unset, r, i)) :
            a \in {<<>>, <<STR_stop>>}, r \in {Unset, "GRA11", "SBG5"},
            i \in {Unset, "i-1"}}

MkEnviron(f) == [k \in {x \in DOMAIN f : f[x] # Unset} |-> f[k]]

MandatorySet == {MANDATORY_ENVS[i] : i \in 1..Len(MANDATORY_ENVS)}

\* every way of leaving mandatory variables unset or empty
EnvConfigs ==
    {MkEnviron(m @@ ("API_KEY" :> a) @@ ("OS_REGION_NAME" :> "GRA11")
               @@ ("INSTANCE_ID" :> "i-1")) :
        m \in [MandatorySet -> {Unset, "", "v"}], a \in {Unset, "secret"}}

\* complete credentials, with and without the optional variables
ParamConfigs ==
    {MkEnviron([k \in MandatorySet |-> "v"] @@ ("API_KEY" :> c[1])
               @@ ("OS_REGION_NAME" :> c[2]) @@ ("INSTANCE_ID" :> c[3])) :
        c \in {x \in {Unset, "", "secret"} \X {Unset, "GRA11"} \X {Unset, "i-1"} :
                  x[1] # "" \/ (x[2] # Unset /\ x[3] # Unset)}}

RawStatuses ==
    {ACTIVE, lower(ACTIVE), SHUTOFF, SHELVED, SHELVED_OFFLOADED,
     lower(SHELVED_OFFLOADED), ERROR}

Endpoint(r, i, u) == [region_id |-> r, interface |-> i, url |-> u]

Catalogs ==
    { <<[type |-> "identity", endpoints |-> <<Endpoint("GRA11", "public", "https://auth")>>],
        [type |-> "compute",
         endpoints |-> <<Endpoint("GRA11", "internal", "https://internal"),
                         Endpoint("SBG5", "public", "https://sbg5"),
                         Endpoint("GRA11", "public", "https://compute")>>]>>,
      <<[type |-> "compute", endpoints |-> <<Endpoint("gra11", "public", "https://lower")>>],
        [type |-> "compute", endpoints |-> <<Endpoint("GRA11", "public", "https://compute")>>]>>,
      <<[type |-> "compute", endpoints |-> <<Endpoint("GRA11", "admin", "https://admin")>>]>>,
      <<>> }

IdentityOutcomes ==
    {[status |-> 201, token |-> "tok", catalog |-> c] : c \in Catalogs}
    \cup {[status |-> 201, token |-> t, catalog |-> c] :
            t \in {None, ""}, c \in {x \in Catalogs : Len(x) = 2}}
    \cup {[status |-> s, token |-> None, catalog |-> <<>>] : s \in {0, 300, 401, 503}}

GetOutcomes ==
    {[status |-> 200, body |-> b] : b \in {"server", "no_server", "empty", "not_json"}}
    \cup {[status |-> 204, body |-> "empty"], [status |-> 300, body |-> "no_server"],
          [status |-> 404, body |-> "no_server"], [status |-> 404, body |-> "empty"],
          [status |-> 500, body |-> "empty"], [status |-> 0, body |-> "empty"]}

ControlOutcomes ==
    {[status |-> 202, body |-> "empty"], [status |-> 200, body |-> "no_server"],
     [status |-> 200, body |-> "not_json"], [status |-> 300, body |-> "no_server"],
     [status |-> 409, body |-> "no_server"], [status |-> 500, body |-> "empty"],
     [status |-> 0, body |-> "empty"]}

-----------------------------------------------------------------------------
\* the state machine

NoResp == _json(0, <<>>)

Call(kind, op, o, server) ==
    [kind |-> kind, op |-> op, status |-> o.status, body |-> o.body, server |-> server]

Init ==
    /\ ENABLE_API_KEY \in BOOLEAN
    /\ \/ environ \in EnvConfigs /\ server_status = ACTIVE
       \/ environ \in ParamConfigs /\ server_status \in RawStatuses
    /\ event = <<>>
    /\ pc = "idle"
    /\ action = <<>> /\ region = None /\ instance_id = None
    /\ token = None /\ compute_endpoint = None /\ state = <<>> /\ data = <<>>
    /\ calls = <<>>
    /\ resp = NoResp

\* the runtime hands lambda_handler an event
Invoke ==
    /\ pc \in {"idle", "done"}
    /\ event' \in Events
    /\ pc' = "invoke"
    /\ action' = <<>> /\ region' = None /\ instance_id' = None
    /\ token' = None /\ compute_endpoint' = None /\ state' = <<>> /\ data' = <<>>
    /\ calls' = <<>>
    /\ resp' = NoResp
    /\ UNCHANGED <<environ, ENABLE_API_KEY, server_status>>

Return(r) ==
    /\ resp' = r
    /\ pc' = "done"

\* lambda_handler, lines 157-184
Validate ==
    /\ pc = "invoke"
    /\ LET missing == _require_envs(environ, ENABLE_API_KEY)
           key_error == _check_api_key(event, environ, ENABLE_API_KEY)
           qs == sub_dict(event, "queryStringParameters")
           act == requested_action(qs)
           reg == py_or(dict_get(qs, "region"), dict_get(environ, "OS_REGION_NAME"))
           inst == py_or(dict_get(qs, "instance_id"), dict_get(environ, "INSTANCE_ID"))
       IN IF missing # <<>>
          THEN /\ Return(internal_error("RuntimeError", "Missing required envs", missing, 0))
               /\ UNCHANGED <<action, region, instance_id>>
          ELSE IF ENABLE_API_KEY /\ key_error # "ok"
          THEN /\ Return(_json(401, [error |-> "unauthorized", message |-> key_error]))
               /\ UNCHANGED <<action, region, instance_id>>
          ELSE IF act \notin allowed
          THEN /\ Return(_json(400, [error |-> "invalid_action", allowed |-> allowed]))
               /\ action' = act
               /\ UNCHANGED <<region, instance_id>>
          ELSE IF missing_parameters(reg, inst) # <<>>
          THEN /\ Return(_json(400, [error |-> "missing_parameters",
                                     missing |-> missing_parameters(reg, inst)]))
               /\ action' = act /\ region' = reg /\ instance_id' = inst
          ELSE /\ pc' = "auth"
               /\ action' = act /\ region' = reg /\ instance_id' = inst
               /\ UNCHANGED resp
    /\ UNCHANGED <<environ, ENABLE_API_KEY, server_status, event, token,
                   compute_endpoint, state, data, calls>>

\* lambda_handler, line 187: the identity POST and what is made of its answer
Authenticate ==
    /\ pc = "auth"
    /\ \E o \in IdentityOutcomes :
         LET r == _get_token_and_compute_url(o, region)
         IN /\ calls' = Append(calls, [kind |-> "identity_post", op |-> "-",
                                       status |-> o.status, body |-> o.token,
                                       server |-> <<>>])
            /\ IF r.raised # ""
               THEN /\ Return(internal_error(r.raised, "", <<>>, r.status))
                    /\ UNCHANGED <<token, compute_endpoint>>
               ELSE /\ token' = r.token
                    /\ compute_endpoint' = r.url
                    /\ pc' = "get"
                    /\ UNCHANGED resp
    /\ UNCHANGED <<environ, ENABLE_API_KEY, server_status, event, action, region,
                   instance_id, state, data>>

\* lambda_handler, lines 189-211: the status GET and the decision
GetServer ==
    /\ pc = "get"
    /\ \E o \in GetOutcomes :
         LET r == _make_compute_request(o)
             raw == IF o.body = "server" THEN server_status ELSE <<>>
             st == upper(server_status)
             plan == control_plan(action, st)
         IN /\ calls' = Append(calls, Call("compute_get", "-", o, raw))
            /\ IF r.raised # ""
               THEN /\ Return(internal_error(r.raised, "", <<>>, r.status))
                    /\ UNCHANGED <<state, data>>
               ELSE IF server_missing(r.value)
               THEN /\ Return(_json(404, [error |-> "instance_not_found or invalid response",
                                          instance_id |-> instance_id]))
                    /\ UNCHANGED <<state, data>>
               ELSE /\ state' = st
                    /\ data' = plan
                    /\ IF plan = <<>>
                       THEN Return(report(action, st, instance_id))
                       ELSE pc' = "control" /\ UNCHANGED resp
    /\ UNCHANGED <<environ, ENABLE_API_KEY, server_status, event, action, region,
                   instance_id, token, compute_endpoint>>

\* lambda_handler, lines 202-220: a control POST and the answer that follows it
ControlCall ==
    /\ pc = "control"
    /\ data # <<>>
    /\ \E o \in ControlOutcomes :
         LET r == _make_compute_request(o)
         IN /\ calls' = Append(calls, Call("compute_post", Head(data), o, <<>>))
            /\ server_status' = IF o.status >= 200 /\ o.status < 300
                                THEN status_after(Head(data)) ELSE server_status
            /\ IF r.raised # ""
               THEN /\ Return(internal_error(r.raised, "", <<>>, r.status))
                    /\ data' = <<>>
               ELSE /\ data' = Tail(data)
                    /\ IF Tail(data) = <<>>
                       THEN Return(report(action, state, instance_id))
                       ELSE UNCHANGED <<pc, resp>>
    /\ UNCHANGED <<environ, ENABLE_API_KEY, event, action, region, instance_id,
                   token, compute_endpoint, state>>

Next == Invoke \/ Validate \/ Authenticate \/ GetServer \/ ControlCall

Spec == Init /\ [][Next]_vars

-----------------------------------------------------------------------------
\* vocabulary of the properties, stated on the request, the configuration, the
\* calls made and the answer, not on the handler's own computations

Range(s) == {s[i] : i \in DOMAIN s}

Missing(k) == k \notin DOMAIN environ \/ environ[k] = ""
MissingMandatory == {k \in MandatorySet : Missing(k)}
ConfigComplete == MissingMandatory = {} /\ (ENABLE_API_KEY => ~Missing("API_KEY"))

Headers == IF "headers" \in DOMAIN event THEN event["headers"] ELSE <<>>
QueryString ==
    IF "queryStringParameters" \in DOMAIN event
    THEN event["queryStringParameters"] ELSE <<>>

SameLetter(a, b) ==
    a = b \/ \E j \in 1..Len(LowerChars) : {a, b} = {LowerChars[j], UpperChars[j]}
EqIgnoreCase(a, b) ==
    Len(a) = Len(b) /\ \A i \in 1..Len(a) : SameLetter(a[i], b[i])
Blank(s) == \A i \in 1..Len(s) : s[i] \in Whitespace
NoLowerCase(s) == \A i \in 1..Len(s) : s[i] \notin Range(LowerChars)

\* raw is the word w in some capitalisation, with blanks around it
Denotes(raw, w) ==
    \E i \in 0..Len(raw) :
        /\ i + Len(w) <= Len(raw)
        /\ Blank(SubSeq(raw, 1, i))
        /\ EqIgnoreCase(SubSeq(raw, i + 1, i + Len(w)), w)
        /\ Blank(SubSeq(raw, i + Len(w) + 1, Len(raw)))

ActionGiven == "action" \in DOMAIN QueryString /\ QueryString["action"] # <<>>
ActionOutside ==
    /\ ActionGiven
    /\ \A w \in {STR_start, STR_stop, STR_status} : ~Denotes(QueryString["action"], w)
Intended(w) ==
    IF ActionGiven THEN Denotes(QueryString["action"], w) ELSE w = STR_status

Enforced == ENABLE_API_KEY /\ ConfigComplete
HeaderKeys(names) == {Headers[n] : n \in names \cap DOMAIN Headers} \ {""}
CorrectInHeader == HeaderKeys({"X-API-Key", "x-api-key"}) = {environ["API_KEY"]}
CorrectInQuery ==
    /\ DOMAIN Headers = {}
    /\ "api_key" \in DOMAIN QueryString
    /\ QueryString["api_key"] = environ["API_KEY"]
WrongOrAbsent ==
    /\ DOMAIN Headers \subseteq {"X-API-Key", "x-api-key"}
    /\ ~CorrectInHeader
    /\ ~CorrectInQuery
KeyAccepted == ENABLE_API_KEY => (CorrectInHeader \/ CorrectInQuery)

Posts == SelectSeq(calls, LAMBDA c : c.kind = "compute_post")
PostOps == [i \in 1..Len(Posts) |-> Posts[i].op]
Is2xx(n) == n >= 200 /\ n < 300
PostRaised(c) ==
    c.status = 0 \/ (c.status >= 400 /\ c.status < 600)
    \/ (c.status # 204 /\ c.body = "not_json")

\* the status GET of this invocation returned a server
Decided ==
    /\ Len(calls) >= 2
    /\ calls[2].kind = "compute_get"
    /\ Is2xx(calls[2].status)
    /\ calls[2].body = "server"
Prior == calls[2].server
PriorIs(s) == EqIgnoreCase(Prior, s)

\* the answer is the 200 report msg; with_state: it names the prior state
Reports(msg, with_state) ==
    /\ resp.statusCode = 200
    /\ resp.body.message = msg
    /\ with_state => /\ "from_state" \in DOMAIN resp.body
                     /\ EqIgnoreCase(resp.body.from_state, Prior)
                     /\ NoLowerCase(resp.body.from_state)

\* one control call op was issued, and unless that call itself failed the
\* answer is the report msg
OneCall(op, msg, with_state) ==
    /\ PostOps = <<op>>
    /\ IF PostRaised(Posts[1]) THEN resp.statusCode = 500 ELSE Reports(msg, with_state)

-----------------------------------------------------------------------------
\* C1: whenever some of OS_AUTH_URL, OS_USERNAME, OS_PASSWORD, OS_PROJECT_ID are
\* unset or empty, the invocation makes no outbound call and answers 500
\* "Missing required envs" listing each missing mandatory key and no key that
\* is set, whatever the request is.
C1_MissingEnvsYield500 ==
    MissingMandatory # {} =>
        /\ calls = <<>>
        /\ pc \in {"idle", "invoke", "done"}
        /\ pc = "done" =>
             /\ resp.statusCode = 500
             /\ resp.body.error = "internal_error"
             /\ resp.body.detail.type = "RuntimeError"
             /\ resp.body.detail.msg = "Missing required envs"
             /\ \A k \in MandatorySet : k \in Range(resp.body.detail.keys) <=> Missing(k)
             /\ \A k \in Range(resp.body.detail.keys) : Missing(k)
             /\ Len(resp.body.detail.keys) = Cardinality(Range(resp.body.detail.keys))

C1_Witness ==
    /\ pc = "done"
    /\ "OS_USERNAME" \notin DOMAIN environ
    /\ "OS_PASSWORD" \in DOMAIN environ /\ environ["OS_PASSWORD"] = ""
    /\ Cardinality(MissingMandatory) = 2
    /\ Intended(STR_start)
    /\ resp.statusCode = 500
    /\ resp.body.detail.keys = <<"OS_USERNAME", "OS_PASSWORD">>

\* C2: a request whose action, trimmed and compared without regard to case, is
\* none of start, stop, status never leads to an identity call (nor to any
\* outbound call); once the configuration check and the API-key check have let
\* it through, it is answered 400 "invalid_action" with the allowed set
\* {start, stop, status}; otherwise it is answered by those earlier checks
\* (500 or 401).
C2_InvalidActionYields400 ==
    ActionOutside =>
        /\ calls = <<>>
        /\ pc \in {"invoke", "done"}
        /\ pc = "done" =>
             /\ resp.statusCode \in {400, 401, 500}
             /\ resp.statusCode = 500 <=> ~ConfigComplete
             /\ (ConfigComplete /\ KeyAccepted) =>
                  /\ resp.statusCode = 400
                  /\ resp.body.error = "invalid_action"
                  /\ resp.body.allowed = {STR_start, STR_stop, STR_status}

C2_Witness ==
    /\ pc = "done"
    /\ ActionOutside
    /\ QueryString["action"] = <<" ">> \o STR_reboot
    /\ ~ENABLE_API_KEY
    /\ resp.statusCode = 400
    /\ calls = <<>>

\* C3: with ENABLE_API_KEY set and every required variable (API_KEY among
\* them) configured, a request with the exact key in the X-API-Key header, or
\* in api_key when it has no header, is not answered 401 and goes on to the
\* later steps; a request whose key is wrong (also when it differs only in
\* case) or absent is answered 401 and makes no outbound call at all.
C3_ApiKeyEnforced ==
    (Enforced /\ pc \notin {"idle", "invoke"}) =>
        /\ (CorrectInHeader \/ CorrectInQuery) =>
             ~(pc = "done" /\ resp.statusCode = 401)
        /\ WrongOrAbsent =>
             /\ pc = "done"
             /\ resp.statusCode = 401
             /\ resp.body.error = "unauthorized"
             /\ calls = <<>>

C3_Witness ==
    /\ Enforced
    /\ pc = "done"
    /\ "X-API-Key" \in DOMAIN Headers /\ Headers["X-API-Key"] = "Secret"
    /\ "api_key" \in DOMAIN QueryString /\ QueryString["api_key"] = "secret"
    /\ environ["API_KEY"] = "secret"
    /\ resp.statusCode = 401
    /\ calls = <<>>

\* C4: with enforcement active, a request that holds the correct key in a
\* header named X-API-Key in any capitalisation is not answered 401.
C4_HeaderNameAnyCase ==
    (Enforced /\ pc = "done"
     /\ \E n \in HeaderNames \cap DOMAIN Headers : Headers[n] = environ["API_KEY"])
        => resp.statusCode # 401

\* C5: a start that has read the server's status issues the control calls its
\* upper-cased status fixes: SHELVED and SHELVED_OFFLOADED exactly one
\* unshelve, reported with the prior state; ACTIVE none, reported "already
\* active"; any other status exactly one os-start, reported with the prior
\* state (the report is the answer unless that one call itself failed).  A
\* start never issues a shelve.
C5_StartDecision ==
    Intended(STR_start) =>
        /\ "shelve" \notin Range(PostOps)
        /\ (pc = "done" /\ Decided) =>
             IF PriorIs(SHELVED) \/ PriorIs(SHELVED_OFFLOADED)
             THEN OneCall("unshelve", "unshelve requested", TRUE)
             ELSE IF PriorIs(ACTIVE)
             THEN PostOps = <<>> /\ Reports("already active", FALSE)
             ELSE OneCall("os-start", "start requested", TRUE)

C5_Witness ==
    /\ pc = "done"
    /\ Intended(STR_start)
    /\ Decided
    /\ Prior = lower(SHELVED_OFFLOADED)
    /\ PostOps = <<"unshelve">>
    /\ resp.statusCode = 200
    /\ resp.body.from_state = SHELVED_OFFLOADED

\* C6: a stop that has read the server's status issues no control call from
\* SHELVED or SHELVED_OFFLOADED and reports "already shelved"; from ACTIVE,
\* from SHUTOFF and from any other status it issues exactly one shelve and
\* answers 200 (never 400), unless that one call itself failed.  A stop never
\* issues an unshelve or an os-start.
C6_StopDecision ==
    Intended(STR_stop) =>
        /\ Range(PostOps) \subseteq {"shelve"}
        /\ (pc = "done" /\ Decided) =>
             /\ resp.statusCode # 400
             /\ IF PriorIs(SHELVED) \/ PriorIs(SHELVED_OFFLOADED)
                THEN PostOps = <<>> /\ Reports("already shelved", FALSE)
                ELSE IF PriorIs(ACTIVE)
                THEN OneCall("shelve", "shelve requested from ACTIVE", FALSE)
                ELSE IF PriorIs(SHUTOFF)
                THEN OneCall("shelve", "shelve requested from SHUTOFF", FALSE)
                ELSE OneCall("shelve", "shelve requested", TRUE)

C6_Witness ==
    /\ pc = "done"
    /\ Intended(STR_stop)
    /\ Decided
    /\ Prior = ERROR
    /\ PostOps = <<"shelve">>
    /\ resp.statusCode = 200
    /\ resp.body.message = "shelve requested"

\* C7: an invocation whose action is status (given or by default) never issues
\* a control call; when its status GET returned a server it answers 200 with
\* the upstream status upper-cased and otherwise unaltered; and no step of it
\* changes the upstream status, so repeated status invocations against an
\* unchanged upstream status return the same state.
C7_StatusState ==
    Intended(STR_status) =>
        /\ Posts = <<>>
        /\ pc # "control"
        /\ (pc = "done" /\ Decided) =>
             /\ resp.statusCode = 200
             /\ DOMAIN resp.body = {"instance_id", "state"}
             /\ EqIgnoreCase(resp.body.state, server_status)
             /\ NoLowerCase(resp.body.state)
             /\ server_status = Prior

C7_StatusReadOnly ==
    [](C7_StatusState) /\ [][Intended(STR_status) => server_status' = server_status]_vars

C7_Witness ==
    /\ pc = "done"
    /\ Intended(STR_status)
    /\ ~ActionGiven
    /\ server_status = lower(ACTIVE)
    /\ resp.statusCode = 200
    /\ resp.body.state = ACTIVE

\* C8: when the status GET yields a body without a server key, an empty body
\* or a failed (4xx, 5xx) response, the answer is 404 and no control call is
\* issued.
C8_NotFoundYields404 ==
    (pc = "done" /\ Len(calls) >= 2 /\ calls[2].kind = "compute_get"
     /\ calls[2].status # 0
     /\ (calls[2].body \in {"no_server", "empty"} \/ calls[2].status >= 400))
        => resp.statusCode = 404 /\ Posts = <<>>

\* C9 as stated: a control call answered with any status outside 2xx makes the
\* invocation answer 500 with that status in the detail; it is the only
\* control call and the last outbound call.
C9_Non2xxYields500 ==
    \A i \in DOMAIN calls :
        (calls[i].kind = "compute_post" /\ calls[i].status # 0
         /\ ~Is2xx(calls[i].status)) =>
            /\ i = Len(calls)
            /\ Len(Posts) = 1
            /\ pc = "done"
            /\ resp.statusCode = 500
            /\ resp.body.detail.status = calls[i].status

\* C9 amended: a control call answered with a 4xx or 5xx status makes the
\* invocation answer 500 with that status in the detail, never 200; it is the
\* only control call and the last outbound call of the invocation.
C9_ErrorStatusYields500 ==
    \A i \in DOMAIN calls :
        (calls[i].kind = "compute_post"
         /\ calls[i].status >= 400 /\ calls[i].status < 600) =>
            /\ i = Len(calls)
            /\ Len(Posts) = 1
            /\ pc = "done"
            /\ resp.statusCode = 500
            /\ resp.body.error = "internal_error"
            /\ resp.body.detail.type = "HTTPError"
            /\ resp.body.detail.status = calls[i].status

C9_Witness ==
    /\ pc = "done"
    /\ Len(calls) = 3
    /\ calls[3].kind = "compute_post" /\ calls[3].op = "shelve"
    /\ calls[3].status = 409
    /\ resp.statusCode = 500
    /\ resp.body.detail.status = 409

\* C10: the outbound calls of an invocation are, in order, at most one identity
\* POST, at most one status GET, at most one control POST; the GET follows an
\* identity call answered 2xx that gave a token and a compute endpoint, the
\* control POST follows a GET answered 2xx with a server, and each call is
\* made only when the handler has reached its step.
C10_CallsSequential ==
    /\ Len(calls) <= 3
    /\ \A i \in DOMAIN calls :
         calls[i].kind = <<"identity_post", "compute_get", "compute_post">>[i]
    /\ Len(calls) >= 2 =>
         /\ Is2xx(calls[1].status)
         /\ calls[1].body \notin {None, ""}
         /\ token = calls[1].body
         /\ compute_endpoint \notin {None, ""}
    /\ Len(calls) >= 3 => Decided
    /\ pc \in {"idle", "invoke", "auth"} => calls = <<>>
    /\ pc = "get" => Len(calls) = 1
    /\ pc = "control" => Len(calls) = 2

C10_Witness ==
    /\ pc = "done"
    /\ Len(calls) = 3
    /\ Is2xx(calls[3].status)
    /\ resp.statusCode = 200

====
